---- MODULE Spec2Model ----
(***************************************************************************)
(* Model of the ISH pipeline scripts.                                      *)
(*                                                                         *)
(* scripts/aggregate_presentation: area-weighted aggregation of cs_ish     *)
(* from the source layer (ottobacias) onto a presentation layer, written   *)
(* as layer agg_<presentation basename> of the scenario GeoPackage.        *)
(*                                                                         *)
(* Geometry is a strip of NumCells unit cells of 1 km2 each: a polygon is  *)
(* a run of adjacent cells, its area the number of its cells, and the      *)
(* overlay of two polygons the set of cells they share.  Floating point    *)
(* numbers are exact rationals <<n, d>> in lowest terms; NaN (the null of  *)
(* a float column) is <<0, 0>>.                                            *)
(***************************************************************************)
EXTENDS Integers, Sequences, FiniteSets, TLC

\* ------------------------------------------------------------------ bounds
NumCells == 2
MaxLen == 3

Cells == 1..NumCells
\* a polygon: a run of adjacent cells
Geoms == {a..b : a \in Cells, b \in Cells} \ {{}}

\* ----------------------------------------------------------------- numbers
NaN == <<0, 0>>

IsNaN(x) == x[2] = 0

Abs(n) == IF n < 0 THEN -n ELSE n

RECURSIVE GCD(_, _)
GCD(a, b) == IF b = 0 THEN a ELSE GCD(b, a % b)

Rat(n, d) ==
    IF d = 0 THEN NaN
    ELSE LET s == IF d < 0 THEN -1 ELSE 1
             g == GCD(Abs(n), Abs(d))
         IN  <<(s * n) \div g, (s * d) \div g>>

Num(i) == <<i, 1>>

Add(x, y) == IF IsNaN(x) \/ IsNaN(y) THEN NaN
             ELSE Rat(x[1] * y[2] + y[1] * x[2], x[2] * y[2])

Mul(x, y) == IF IsNaN(x) \/ IsNaN(y) THEN NaN
             ELSE Rat(x[1] * y[1], x[2] * y[2])

\* x < y on non-NaN numbers (every comparison with NaN is false)
Less(x, y) == ~IsNaN(x) /\ ~IsNaN(y) /\ x[1] * y[2] < y[1] * x[2]

Leq(x, y) == ~IsNaN(x) /\ ~IsNaN(y) /\ x[1] * y[2] <= y[1] * x[2]

\* Series.fillna(0)
fillna0(x) == IF IsNaN(x) THEN Num(0) ELSE x

\* --------------------------------------------------------- sequence helpers
Range(s) == {s[i] : i \in DOMAIN s}

RECURSIVE SeqSum(_)
SeqSum(s) == IF s = <<>> THEN Num(0) ELSE Add(s[1], SeqSum(Tail(s)))

RECURSIVE Filter(_, _)
Filter(s, keep) ==
    IF s = <<>> THEN <<>>
    ELSE IF keep[1] THEN <<s[1]>> \o Filter(Tail(s), Tail(keep))
         ELSE Filter(Tail(s), Tail(keep))

RECURSIVE Flatten(_)
Flatten(ss) == IF ss = <<>> THEN <<>> ELSE ss[1] \o Flatten(Tail(ss))

\* ------------------------------------------------------- aggregation names
SUPPORTED_AGGS == <<"mean", "median", "max", "min">>

FourAggs == <<"mean", "median", "max", "min">>

\* the request lists (--agg) a run is started with
Requests == { <<"all">>, FourAggs, <<"mean">>, <<"max", "min">> }

colname(a) == "cs_ish_" \o a

\* -------------------------------------------------------- _weighted_median
\* stable insertion of pair p = <<value, weight>> into a sequence sorted by value
RECURSIVE InsertSorted(_, _)
InsertSorted(p, s) ==
    IF s = <<>> THEN <<p>>
    ELSE IF Less(p[1], s[1][1]) THEN <<p>> \o s
         ELSE <<s[1]>> \o InsertSorted(p, Tail(s))

\* np.argsort(values) applied to values and weights: pairs in ascending value
RECURSIVE SortPairs(_)
SortPairs(s) ==
    IF s = <<>> THEN <<>>
    ELSE InsertSorted(s[Len(s)], SortPairs(SubSeq(s, 1, Len(s) - 1)))

Pairs(values, weights) == [i \in DOMAIN values |-> <<values[i], weights[i]>>]

\* np.cumsum
cumsum(ws) == [i \in DOMAIN ws |-> SeqSum(SubSeq(ws, 1, i))]

\* np.searchsorted(a, v) (side='left') on an ascending array: the 0-based
\* index of the first element >= v, Len(a) when there is none
searchsorted(a, v) == Cardinality({i \in DOMAIN a : Less(a[i], v)})

Min2(a, b) == IF a < b THEN a ELSE b

\* np.nanmedian of a non-empty array without NaN
MiddleOf(srt, n) ==
    IF n % 2 = 1 THEN srt[(n + 1) \div 2][1]
    ELSE Mul(Add(srt[n \div 2][1], srt[n \div 2 + 1][1]), Rat(1, 2))

nanmedian(values) ==
    MiddleOf(SortPairs([i \in DOMAIN values |-> <<values[i], Num(0)>>]), Len(values))

\* faulty variant: side='right'
searchsorted_right(a, v) == Cardinality({i \in DOMAIN a : Leq(a[i], v)})

\* values_sorted[min(idx, len(values_sorted) - 1)]
ValueAt(srt, idx) == srt[Min2(idx, Len(srt) - 1) + 1][1]

WeightsOf(srt) == [i \in DOMAIN srt |-> srt[i][2]]

\* cutoff = weights_sorted.sum() / 2.0 ; idx = np.searchsorted(cumsum, cutoff)
CutIndex(wss) == searchsorted(cumsum(wss), Mul(SeqSum(wss), Rat(1, 2)))

\* faulty variant of CutIndex: side='right'
CutIndexRight(wss) == searchsorted_right(cumsum(wss), Mul(SeqSum(wss), Rat(1, 2)))

\* the median of the values left by the mask, with their weights
MaskedMedian(vals, ws) ==
    IF Len(vals) = 0 THEN NaN
    ELSE IF SeqSum(ws) = Num(0) THEN nanmedian(vals)
    ELSE ValueAt(SortPairs(Pairs(vals, ws)), CutIndex(WeightsOf(SortPairs(Pairs(vals, ws)))))

\* faulty variant of MaskedMedian: no fallback when the weights sum to zero
MaskedMedianZeroNaN(vals, ws) ==
    IF Len(vals) = 0 THEN NaN
    ELSE IF SeqSum(ws) = Num(0) THEN NaN
    ELSE ValueAt(SortPairs(Pairs(vals, ws)), CutIndex(WeightsOf(SortPairs(Pairs(vals, ws)))))

\* faulty variant of MaskedMedian: side='right'
MaskedMedianRight(vals, ws) ==
    IF Len(vals) = 0 THEN NaN
    ELSE IF SeqSum(ws) = Num(0) THEN nanmedian(vals)
    ELSE ValueAt(SortPairs(Pairs(vals, ws)),
                 CutIndexRight(WeightsOf(SortPairs(Pairs(vals, ws)))))

\* mask = ~np.isnan(values)
Mask(values) == [i \in DOMAIN values |-> ~IsNaN(values[i])]

\* faulty variant of weighted_median: NaN when the weights sum to zero
weighted_median_zero_nan(values, weights) ==
    IF Len(values) = 0 THEN NaN
    ELSE MaskedMedianZeroNaN(Filter(values, Mask(values)), Filter(weights, Mask(values)))

\* faulty variant of weighted_median: searchsorted(..., side='right')
weighted_median_side_right(values, weights) ==
    IF Len(values) = 0 THEN NaN
    ELSE MaskedMedianRight(Filter(values, Mask(values)), Filter(weights, Mask(values)))

\* _weighted_median(values, weights): values may hold NaN, weights are >= 0
weighted_median(values, weights) ==
    IF Len(values) = 0 THEN NaN
    ELSE MaskedMedian(Filter(values, Mask(values)), Filter(weights, Mask(values)))

\* ------------------------------------------------------------------ layers
\* cs_ish values a source unit may carry
Values == {NaN, Num(2), Num(4)}

SrcIds == <<"A", "B">>
PresIds == <<"P1", "P2">>

input_layer == "regiao_completa"
id_field == "id_apresent"

\* presentation_gpkg: the path given to the run, as its directories and the
\* file name cut at its dots: ./apresentacao/mun_es.gpkg is
\* [dir |-> <<".", "apresentacao">>, file |-> <<"mun_es", "gpkg">>]
VARIABLE presentation_gpkg

RECURSIVE JoinDots(_)
JoinDots(parts) ==
    IF Len(parts) = 0 THEN ""
    ELSE IF Len(parts) = 1 THEN parts[1]
    ELSE parts[1] \o "." \o JoinDots(Tail(parts))

\* os.path.basename(path): the last component of the path
basename(path) == path.file

\* os.path.splitext(name): the name is cut at its last dot
splitext(name) ==
    IF Len(name) <= 1 THEN <<JoinDots(name), "">>
    ELSE <<JoinDots(SubSeq(name, 1, Len(name) - 1)), "." \o name[Len(name)]>>

\* faulty variant of out_layer_name: the extension is kept
out_layer_name_with_ext == "agg_" \o JoinDots(basename(presentation_gpkg))

\* os.path.splitext(os.path.basename(presentation_gpkg))[0]
layer_basename == splitext(basename(presentation_gpkg))[1]
out_layer_name == "agg_" \o layer_basename

\* the source layers (ottobacias with cs_ish) joinISH may have produced
SourceLayers ==
    { [cols |-> <<"cobacia", "cs_ish", "geometry">>,
       rows |-> [i \in DOMAIN SrcIds |->
                    [cobacia |-> SrcIds[i], cs_ish |-> v[i], geometry |-> g[i]]]] :
      v \in [DOMAIN SrcIds -> Values], g \in [DOMAIN SrcIds -> Geoms] }

\* the presentation layers (unique ids)
PresentationLayers ==
    { [cols |-> <<id_field, "geometry">>,
       rows |-> [i \in DOMAIN PresIds |-> [id |-> PresIds[i], geometry |-> g[i]]]] :
      g \in [DOMAIN PresIds -> Geoms] }

EmptyLayer == [cols |-> <<>>, rows |-> <<>>]

\* geometry.area / 1e6 : one cell is 1 km2
area_km2(geom) == Cardinality(geom)

\* ----------------------------------------------------------------- frames
\* A frame of presentation rows: cols lists the attribute columns added to
\* the presentation columns, in order; every row carries attrs[c] for them.
SetColumn(frame, col, v) ==
    [cols |-> IF col \in Range(frame.cols) THEN frame.cols
              ELSE Append(frame.cols, col),
     rows |-> [i \in DOMAIN frame.rows |->
                [frame.rows[i] EXCEPT !.attrs =
                    [c \in (DOMAIN frame.rows[i].attrs) \cup {col} |->
                        IF c = col THEN v ELSE frame.rows[i].attrs[c]]]]]

\* gdf_pres_p["area_apresent_km2"] = gdf_pres_p.geometry.area / 1e6 ; .copy()
PresWithArea(p) ==
    [cols |-> <<>>,
     rows |-> [i \in DOMAIN p.rows |->
                [id |-> p.rows[i].id, geometry |-> p.rows[i].geometry,
                 area_apresent_km2 |-> area_km2(p.rows[i].geometry),
                 attrs |-> [c \in {} |-> NaN]]]]

\* faulty variant of overlay: area_inter_km2 is the area of the whole source unit
overlay_source_area(frame, srcl) ==
    Flatten([i \in DOMAIN frame.rows |->
        Flatten([j \in DOMAIN srcl.rows |->
            LET g == frame.rows[i].geometry \cap srcl.rows[j].geometry
            IN  IF g = {} THEN <<>>
                ELSE << [id |-> frame.rows[i].id,
                         area_apresent_km2 |-> frame.rows[i].area_apresent_km2,
                         cobacia |-> srcl.rows[j].cobacia,
                         cs_ish |-> srcl.rows[j].cs_ish,
                         geometry |-> g,
                         area_inter_km2 |-> area_km2(srcl.rows[j].geometry)] >>])])

\* gpd.overlay(gdf_pres_p, gdf_input_p[[cobacia, cs_ish, geometry]], how="intersection")
\* with inter["area_inter_km2"] = inter.geometry.area / 1e6
overlay(frame, srcl) ==
    Flatten([i \in DOMAIN frame.rows |->
        Flatten([j \in DOMAIN srcl.rows |->
            LET g == frame.rows[i].geometry \cap srcl.rows[j].geometry
            IN  IF g = {} THEN <<>>
                ELSE << [id |-> frame.rows[i].id,
                         area_apresent_km2 |-> frame.rows[i].area_apresent_km2,
                         cobacia |-> srcl.rows[j].cobacia,
                         cs_ish |-> srcl.rows[j].cs_ish,
                         geometry |-> g,
                         area_inter_km2 |-> area_km2(g)] >>])])

\* the keys of inter.groupby(id_field), each once
RECURSIVE GroupKeys(_)
GroupKeys(inter) ==
    IF inter = <<>> THEN <<>>
    ELSE LET rest == GroupKeys(SubSeq(inter, 1, Len(inter) - 1))
             k    == inter[Len(inter)].id
         IN  IF k \in Range(rest) THEN rest ELSE Append(rest, k)

\* the rows of one group
Group(inter, key) == Filter(inter, [i \in DOMAIN inter |-> inter[i].id = key])

\* ------------------------------------------------------------ aggregations
\* AggMean, AggMedian, AggMax, AggMin: one record [key, val] per group of
\* inter.groupby(id_field)
\* inter["weighted"] = cs_ish.fillna(0) * (area_inter_km2 / area_apresent_km2); sum
WeightedSum(grp) ==
    SeqSum([i \in DOMAIN grp |->
              Mul(fillna0(grp[i].cs_ish),
                  Rat(grp[i].area_inter_km2, grp[i].area_apresent_km2))])

AggMean(inter) ==
    [k \in DOMAIN GroupKeys(inter) |->
        [key |-> GroupKeys(inter)[k],
         val |-> WeightedSum(Group(inter, GroupKeys(inter)[k]))]]

\* vals = grp["cs_ish"]; w = grp["area_inter_km2"]; _weighted_median(vals, w)
GroupMedian(grp) ==
    weighted_median([i \in DOMAIN grp |-> grp[i].cs_ish],
                    [i \in DOMAIN grp |-> Num(grp[i].area_inter_km2)])

AggMedian(inter) ==
    [k \in DOMAIN GroupKeys(inter) |->
        [key |-> GroupKeys(inter)[k],
         val |-> GroupMedian(Group(inter, GroupKeys(inter)[k]))]]

\* pandas max / min of a group: NaN skipped, NaN when nothing is left
NonNull(vals) == Filter(vals, [i \in DOMAIN vals |-> ~IsNaN(vals[i])])

MaxOf(nn) ==
    IF nn = <<>> THEN NaN
    ELSE CHOOSE m \in Range(nn) : \A x \in Range(nn) : Leq(x, m)

MinOf(nn) ==
    IF nn = <<>> THEN NaN
    ELSE CHOOSE m \in Range(nn) : \A x \in Range(nn) : Leq(m, x)

GroupMax(grp) == MaxOf(NonNull([i \in DOMAIN grp |-> grp[i].cs_ish]))

GroupMin(grp) == MinOf(NonNull([i \in DOMAIN grp |-> grp[i].cs_ish]))

AggMax(inter) ==
    [k \in DOMAIN GroupKeys(inter) |->
        [key |-> GroupKeys(inter)[k],
         val |-> GroupMax(Group(inter, GroupKeys(inter)[k]))]]

AggMin(inter) ==
    [k \in DOMAIN GroupKeys(inter) |->
        [key |-> GroupKeys(inter)[k],
         val |-> GroupMin(Group(inter, GroupKeys(inter)[k]))]]

\* ------------------------------------------------------------------- merge
\* the row of a merge: left attributes under their (suffixed) names plus the
\* right column
MergedRow(row, col, overlap, v) ==
    IF overlap
    THEN [row EXCEPT !.attrs =
            [n \in ((DOMAIN row.attrs) \ {col}) \cup {col \o "_x", col \o "_y"} |->
                IF n = col \o "_y" THEN v
                ELSE IF n = col \o "_x" THEN row.attrs[col]
                ELSE row.attrs[n]]]
    ELSE [row EXCEPT !.attrs =
            [n \in (DOMAIN row.attrs) \cup {col} |->
                IF n = col THEN v ELSE row.attrs[n]]]

MergedCols(cols, col, overlap) ==
    [i \in DOMAIN cols |-> IF overlap /\ cols[i] = col THEN col \o "_x" ELSE cols[i]]
    \o << IF overlap THEN col \o "_y" ELSE col >>

\* the rows of right whose key is the row's id
Matches(row, right) == Filter(right, [j \in DOMAIN right |-> right[j].key = row.id])

\* faulty variant of LeftRows: how="inner"
InnerRows(row, m, col, overlap) ==
    [j \in DOMAIN m |-> MergedRow(row, col, overlap, m[j].val)]

LeftRows(row, m, col, overlap) ==
    IF m = <<>> THEN << MergedRow(row, col, overlap, NaN) >>
    ELSE [j \in DOMAIN m |-> MergedRow(row, col, overlap, m[j].val)]

\* faulty variant of merge_left: how="inner"
merge_inner(frame, right, col) ==
    [cols |-> MergedCols(frame.cols, col, col \in Range(frame.cols)),
     rows |-> Flatten([i \in DOMAIN frame.rows |->
                 InnerRows(frame.rows[i], Matches(frame.rows[i], right), col,
                           col \in Range(frame.cols))])]

\* result_pres.merge(right, on=id_field, how="left"), right holding the columns
\* id_field and col: a column name the two frames share (other than the key)
\* gets the suffixes _x (left) and _y (right)
merge_left(frame, right, col) ==
    [cols |-> MergedCols(frame.cols, col, col \in Range(frame.cols)),
     rows |-> Flatten([i \in DOMAIN frame.rows |->
                 LeftRows(frame.rows[i], Matches(frame.rows[i], right), col,
                          col \in Range(frame.cols))])]

\* --------------------------------------------- aggregate_presentation_gpkg
\* gpkg:     the layers of the scenario GeoPackage (input_gpkg = output_gpkg)
\* pres:     the presentation layer read from presentation_gpkg
\* request:  the --agg list of the last run, outcome: how that run ended
\* last_all: history, the layer written by the last run with --agg all
\* io_log:   the reads and writes of the last run, in order
\* before:   history, the GeoPackage and the presentation layer as they were
\*           when the last observed run started
\* wm_*:     arguments and result of a call of _weighted_median
\* ud:       the state of a run of update_dimension.py
\* rec:      the state of a run of aplica_recortes.py
\* dimrun:   a dimension update and the cs_ish computed from it
\* colour:   a column of values and the colours chosen for it
\* imap:     the state of a call of run_interactive
\* layout:   the state of a call of save_static_maps_from_selection
VARIABLES gpkg, pres, request, outcome, last_all, io_log, before,
          wm_values, wm_weights, wm_result, wm_called, ud, rec,
          dimrun, colour, imap, layout

agg_vars == <<gpkg, pres, presentation_gpkg, request, outcome, last_all,
              io_log, before>>
wm_vars == <<wm_values, wm_weights, wm_result, wm_called>>

late_vars == <<dimrun, colour, imap, layout>>

vars == <<agg_vars, wm_vars, ud, rec, late_vars>>

\* faulty variant of normalize_aggs: "all" leaves out the last aggregation
normalize_aggs_short(aggs) ==
    IF "all" \in Range(aggs) THEN SubSeq(SUPPORTED_AGGS, 1, Len(SUPPORTED_AGGS) - 1)
    ELSE aggs

\* aggs = list(aggs); if "all" in aggs: aggs = list(SUPPORTED_AGGS)
normalize_aggs(aggs) ==
    IF "all" \in Range(aggs) THEN SUPPORTED_AGGS ELSE aggs

\* for a in aggs: if a not in SUPPORTED_AGGS: raise ValueError
supported(aggs) == \A a \in Range(aggs) : a \in Range(SUPPORTED_AGGS)

\* for a in aggs: [if colname not in columns:] frame[colname] = v
RECURSIVE FillColumns(_, _, _, _)
FillColumns(frame, aggs, only_missing, v) ==
    IF aggs = <<>> THEN frame
    ELSE LET c == colname(Head(aggs))
         IN  FillColumns(IF only_missing /\ c \in Range(frame.cols) THEN frame
                         ELSE SetColumn(frame, c, v),
                         Tail(aggs), only_missing, v)

\* initialize columns for requested aggs
init_columns(frame, aggs) == FillColumns(frame, aggs, FALSE, NaN)

\* faulty variant of ensure_columns: missing columns filled with 0
ensure_columns_zero(frame, aggs) == FillColumns(frame, aggs, TRUE, Num(0))

\* ensure all columns exist in result_pres (fill missing with NaN)
ensure_columns(frame, aggs) == FillColumns(frame, aggs, TRUE, NaN)

mean_step(frame, inter, aggs) ==
    IF "mean" \in Range(aggs) THEN merge_left(frame, AggMean(inter), "cs_ish_mean")
    ELSE frame

\* if records: merge, else: result_pres["cs_ish_median"] = np.nan
MergeRecords(frame, records) ==
    IF records # <<>> THEN merge_left(frame, records, "cs_ish_median")
    ELSE SetColumn(frame, "cs_ish_median", NaN)

median_step(frame, inter, aggs) ==
    IF "median" \in Range(aggs) THEN MergeRecords(frame, AggMedian(inter))
    ELSE frame

max_step(frame, inter, aggs) ==
    IF "max" \in Range(aggs) THEN merge_left(frame, AggMax(inter), "cs_ish_max")
    ELSE frame

min_step(frame, inter, aggs) ==
    IF "min" \in Range(aggs) THEN merge_left(frame, AggMin(inter), "cs_ish_min")
    ELSE frame

\* the four aggregation blocks and the final loop, for a non-empty inter
Aggregated(result_pres, inter, aggs) ==
    ensure_columns(
        min_step(max_step(median_step(mean_step(result_pres, inter, aggs),
                                      inter, aggs), inter, aggs), inter, aggs),
        aggs)

\* if inter.empty: write the frame with its NaN columns
ResultFor(result_pres, inter, aggs) ==
    IF inter = <<>> THEN result_pres ELSE Aggregated(result_pres, inter, aggs)

Projected(gdf_pres_p, gdf_input, aggs) ==
    ResultFor(init_columns(gdf_pres_p, aggs), overlay(gdf_pres_p, gdf_input), aggs)

\* the frame a run writes (result_pres_out) for validated aggs
result_pres_out(gdf_input, gdf_pres, aggs) ==
    Projected(PresWithArea(gdf_pres), gdf_input, aggs)

\* faulty variant of safe_write_layer_to_gpkg: the rows are appended to a layer
\* that exists already (mode="a" on gpkg_path)
safe_write_append(g, layer_name, gdf_to_write) ==
    [l \in DOMAIN g \cup {layer_name} |->
        IF l # layer_name THEN g[l]
        ELSE IF l \in DOMAIN g
        THEN [cols |-> gdf_to_write.cols, rows |-> g[l].rows \o gdf_to_write.rows]
        ELSE gdf_to_write]

\* faulty variant of safe_write_layer_to_gpkg: the other layers reach the
\* temporary file without their rows
safe_write_losing_rows(g, layer_name, gdf_to_write) ==
    [l \in DOMAIN g \cup {layer_name} |->
        IF l = layer_name THEN gdf_to_write
        ELSE IF layer_name \in DOMAIN g THEN [cols |-> g[l].cols, rows |-> <<>>]
        ELSE g[l]]

\* _safe_write_layer_to_gpkg on an existing GeoPackage: the layer is added, or
\* every other layer is copied to a temporary file, the new layer appended and
\* the file replaced
safe_write_layer_to_gpkg(g, layer_name, gdf_to_write) ==
    IF layer_name \notin DOMAIN g
    THEN [l \in DOMAIN g \cup {layer_name} |->
            IF l = layer_name THEN gdf_to_write ELSE g[l]]
    ELSE LET temp == [l \in DOMAIN g \ {layer_name} |-> g[l]]
         IN  [l \in DOMAIN temp \cup {layer_name} |->
                IF l = layer_name THEN gdf_to_write ELSE temp[l]]

\* the ValueError raised by the run, "" if it raises none: the request is
\* validated first, then the input layer is read and checked, then the
\* presentation layer
error_of(g, gdf_pres, aggs) ==
    IF ~supported(aggs) THEN "Unsupported aggregation"
    ELSE IF "cs_ish" \notin Range(g[input_layer].cols)
    THEN "Input layer does not contain 'cs_ish' column."
    ELSE IF id_field \notin Range(gdf_pres.cols)
    THEN "id_field not found in presentation layer."
    ELSE ""

\* the reads and the write a run has made when it ends with error err
io_of(err) ==
    IF err = "Unsupported aggregation" THEN <<>>
    ELSE IF err = "Input layer does not contain 'cs_ish' column."
    THEN <<"read input">>
    ELSE IF err = "id_field not found in presentation layer."
    THEN <<"read input", "read presentation">>
    ELSE <<"read input", "read presentation", "write">>

\* faulty variant of store_after: the layer agg_<basename> is dropped before
\* the inputs are checked
store_after_dropping(g, gdf_pres, aggs, err) ==
    IF err # "" THEN [l \in DOMAIN g \ {out_layer_name} |-> g[l]]
    ELSE safe_write_layer_to_gpkg(g, out_layer_name,
                                  result_pres_out(g[input_layer], gdf_pres, aggs))

\* the GeoPackage when the run ends: a run that raises has written nothing
store_after(g, gdf_pres, aggs, err) ==
    IF err # "" THEN g
    ELSE safe_write_layer_to_gpkg(g, out_layer_name,
                                  result_pres_out(g[input_layer], gdf_pres, aggs))

\* one run of aggregate_presentation_gpkg with aggs = aggs_in and
\* output_gpkg = input_gpkg
aggregate_presentation_gpkg(aggs_in) ==
    LET aggs == normalize_aggs(aggs_in)
        err == error_of(gpkg, pres, aggs)
    IN  /\ request' = aggs_in
        /\ io_log' = io_of(err)
        /\ gpkg' = store_after(gpkg, pres, aggs, err)
        /\ outcome' = IF err # "" THEN "ValueError" ELSE "ok"
        /\ last_all' = IF err = "" /\ aggs_in = <<"all">> THEN gpkg'[out_layer_name]
                       ELSE last_all

\* cli(): one run of the script with --agg aggs_in
cli(aggs_in) ==
    /\ aggregate_presentation_gpkg(aggs_in)
    /\ UNCHANGED <<pres, presentation_gpkg, before, wm_vars, ud, rec, late_vars>>

\* the path of the docstring's example, ./apresentacao/mun_es.gpkg
mun_es_gpkg == [dir |-> <<".", "apresentacao">>, file |-> <<"mun_es", "gpkg">>]

\* no run observed yet
NoRun == [gpkg |-> [l \in {} |-> EmptyLayer], pres |-> EmptyLayer]

\* update_dimension.py and aplica_recortes.py not started
ud_idle == [pc |-> "idle"]
rec_idle == [pc |-> "idle"]

\* the map scripts and the dimension update not started
late_idle ==
    /\ dimrun = [pc |-> "idle"]
    /\ colour = [pc |-> "idle"]
    /\ imap = [pc |-> "idle"]
    /\ layout = [pc |-> "idle"]

Init ==
    /\ \E s \in SourceLayers : gpkg = [l \in {input_layer} |-> s]
    /\ pres \in PresentationLayers
    /\ request = <<>>
    /\ outcome = "none"
    /\ last_all = EmptyLayer
    /\ presentation_gpkg = mun_es_gpkg
    /\ io_log = <<>>
    /\ before = NoRun
    /\ wm_values = <<>>
    /\ wm_weights = <<>>
    /\ wm_result = NaN
    /\ wm_called = FALSE
    /\ ud = ud_idle
    /\ rec = rec_idle
    /\ late_idle

Next == \E aggs_in \in Requests : cli(aggs_in)

Spec == Init /\ [][Next]_vars

\* ---------------------------------------------- calls of _weighted_median
MaxWeight == 2

WMValues == {NaN, Num(1), Num(3), Num(5)}
WMWeights == {Num(w) : w \in 0..MaxWeight}

\* med = _weighted_median(vals, w)
call_weighted_median ==
    /\ ~wm_called
    /\ wm_called' = TRUE
    /\ wm_result' = weighted_median(wm_values, wm_weights)
    /\ UNCHANGED <<agg_vars, wm_values, wm_weights, ud, rec, late_vars>>

InitWM ==
    /\ gpkg = [l \in {input_layer} |->
                 CHOOSE s \in SourceLayers :
                    \A i \in DOMAIN s.rows :
                       s.rows[i].cs_ish = NaN /\ s.rows[i].geometry = Cells]
    /\ pres = CHOOSE p \in PresentationLayers :
                 \A i \in DOMAIN p.rows : p.rows[i].geometry = Cells
    /\ presentation_gpkg = mun_es_gpkg
    /\ request = <<>>
    /\ outcome = "none"
    /\ last_all = EmptyLayer
    /\ io_log = <<>>
    /\ before = NoRun
    /\ ud = ud_idle
    /\ rec = rec_idle
    /\ late_idle
    /\ \E n \in 0..MaxLen :
          /\ wm_values \in [1..n -> WMValues]
          /\ wm_weights \in [1..n -> WMWeights]
    /\ wm_result = NaN
    /\ wm_called = FALSE

NextWM == call_weighted_median

SpecWM == InitWM /\ [][NextWM]_vars

\* ------------------------------------------------ runs on a GeoPackage in use
\* a source layer of two adjoining ottobacias, and one without cs_ish
SourceWithCsIsh ==
    [cols |-> <<"cobacia", "cs_ish", "geometry">>,
     rows |-> << [cobacia |-> "A", cs_ish |-> Num(2), geometry |-> {1}],
                 [cobacia |-> "B", cs_ish |-> Num(4), geometry |-> Cells \ {1}] >>]

SourceWithoutCsIsh ==
    [cols |-> <<"cobacia", "geometry">>,
     rows |-> << [cobacia |-> "A", geometry |-> {1}],
                 [cobacia |-> "B", geometry |-> Cells \ {1}] >>]

\* a presentation layer with the column id_field, and one without it
PresWithId ==
    [cols |-> <<id_field, "geometry">>,
     rows |-> << [id |-> "P1", geometry |-> {1}],
                 [id |-> "P2", geometry |-> Cells] >>]

PresWithoutId ==
    [cols |-> <<"nome", "geometry">>,
     rows |-> << [nome |-> "P1", geometry |-> {1}],
                 [nome |-> "P2", geometry |-> Cells] >>]

\* layers the GeoPackage may hold beside the source layer
OtherLayerNames == {"recorte_es", "agg_outra"}
OtherLayer ==
    [cols |-> <<"nome", "geometry">>,
     rows |-> << [nome |-> "es", geometry |-> Cells] >>]

\* a layer agg_<basename> left by an earlier run on another presentation layer
StaleAgg ==
    [cols |-> <<"cs_ish_mean">>,
     rows |-> << [id |-> "OLD", geometry |-> {1}, area_apresent_km2 |-> 1,
                  attrs |-> [c \in {"cs_ish_mean"} |-> Num(4)]] >>]

\* presentation paths: ./apresentacao/mun_es.gpkg, dados/bacias.v2.gpkg, regioes
PresPaths ==
    { mun_es_gpkg,
      [dir |-> <<"dados">>, file |-> <<"bacias", "v2", "gpkg">>],
      [dir |-> <<>>, file |-> <<"regioes">>] }

\* --agg lists, among them lists with a name that is not supported
StoreRequests ==
    Requests \cup { <<"mode">>, <<"mean", "mode">>, <<"all", "mode">> }

\* cli() on a GeoPackage in use; the state at the start of the run is kept
cli_on_store(aggs_in) ==
    /\ aggregate_presentation_gpkg(aggs_in)
    /\ before' = [gpkg |-> gpkg, pres |-> pres]
    /\ UNCHANGED <<pres, presentation_gpkg, wm_vars, ud, rec, late_vars>>

InitStore ==
    /\ presentation_gpkg \in PresPaths
    /\ \E s \in {SourceWithCsIsh, SourceWithoutCsIsh} :
       \E others \in SUBSET OtherLayerNames :
       \E stale \in SUBSET {out_layer_name} :
          gpkg = [l \in {input_layer} \cup others \cup stale |->
                    IF l = input_layer THEN s
                    ELSE IF l \in stale THEN StaleAgg ELSE OtherLayer]
    /\ pres \in {PresWithId, PresWithoutId}
    /\ request = <<>>
    /\ outcome = "none"
    /\ last_all = EmptyLayer
    /\ io_log = <<>>
    /\ before = NoRun
    /\ wm_values = <<>>
    /\ wm_weights = <<>>
    /\ wm_result = NaN
    /\ wm_called = FALSE
    /\ ud = ud_idle
    /\ rec = rec_idle
    /\ late_idle

NextStore == \E aggs_in \in StoreRequests : cli_on_store(aggs_in)

SpecStore == InitStore /\ [][NextStore]_vars

\* ====================================================== update_dimension.py
\* A GeoPackage file is the sequence of its layers, [name, content], in the
\* order fiona.listlayers gives; the content of a layer is the sequence of its
\* features, a feature a function from column names to values.
layer == "regiao_completa"
csv_dim == "ire_cs_inu"
gpkg_in == "cenario.gpkg"
temp_gpkg == gpkg_in \o ".tmp.gpkg"
new_gpkg == "novo.gpkg"
default_backup_dir == "backup_update"
\* os.path.join(backup_dir, basename(gpkg_in) + ".backup." + timestamp)
backup_path_of(dir) == dir \o "/" \o gpkg_in \o ".backup.20240101_120000"

\* the value of --out when the option is not given
None == "None"

\* fiona.listlayers(path)
listlayers(file) == [k \in DOMAIN file |-> file[k].name]

\* gpd.read_file(path, layer=lyr)
read_file(file, lyr) ==
    file[CHOOSE k \in DOMAIN file : file[k].name = lyr].content

\* frame.to_file(path, layer=lyr, driver="GPKG"): the file is created, or the
\* layer is added to it, or the layer of that name is written anew
to_file(fs, path, lyr, frame) ==
    LET old == IF path \in DOMAIN fs THEN fs[path] ELSE <<>>
        new == IF lyr \in Range(listlayers(old))
               THEN [k \in DOMAIN old |->
                       IF old[k].name = lyr
                       THEN [name |-> lyr, content |-> frame] ELSE old[k]]
               ELSE Append(old, [name |-> lyr, content |-> frame])
    IN  [q \in DOMAIN fs \cup {path} |-> IF q = path THEN new ELSE fs[q]]

\* os.remove(path)
remove(fs, path) == [q \in DOMAIN fs \ {path} |-> fs[q]]

\* shutil.copy2(src, dst)
copy2(fs, src, dst) == [q \in DOMAIN fs \cup {dst} |-> IF q = dst THEN fs[src] ELSE fs[q]]

\* shutil.move(src, dst)
move(fs, src, dst) ==
    [q \in (DOMAIN fs \ {src}) \cup {dst} |-> IF q = dst THEN fs[src] ELSE fs[q]]

\* the columns whose name starts with dim_prefix = "ire_cs_"
DimPrefixed == {"ire_cs_inu", "ire_cs_hum", "ire_cs_inu_orig_backup"}

SetSeq(S) == CHOOSE q \in [1..Cardinality(S) -> S] : Range(q) = S

\* faulty variant of row_mean: zeros count (keep_zero on)
row_mean_keep_zero(feat) ==
    LET dim_cols == SetSeq(DOMAIN feat \cap DimPrefixed)
        vals     == [k \in DOMAIN dim_cols |-> feat[dim_cols[k]]]
        valid    == Filter(vals, [k \in DOMAIN vals |-> ~IsNaN(vals[k])])
    IN  IF Len(valid) = 0 THEN NaN
        ELSE Mul(SeqSum(valid), Rat(1, Len(valid)))

\* compute_cs_ish for one feature: the mean of the dimension values > 0,
\* NA when there is none
row_mean(feat) ==
    LET dim_cols == SetSeq(DOMAIN feat \cap DimPrefixed)
        vals     == [k \in DOMAIN dim_cols |-> feat[dim_cols[k]]]
        valid    == Filter(vals, [k \in DOMAIN vals |->
                                    ~IsNaN(vals[k]) /\ Less(Num(0), vals[k])])
    IN  IF Len(valid) = 0 THEN NaN
        ELSE Mul(SeqSum(valid), Rat(1, Len(valid)))

\* A key cell is [text, form]: the digits or characters of the key and the
\* form the column gives it: "int" (7796133), "float" (7796133.0), "str"
\* ("7796133"), "padded" (" 7796133 ") or "null".
Key(text) == [text |-> text, form |-> "int"]

\* normalize_key_series, for one cell: null gives "", a number its integer
\* digits, a string the string without the surrounding blanks
normalize_key(cell) == IF cell.form = "null" THEN "" ELSE cell.text

\* mapping[k] = row[csv_dim] over the rows of the CSV: the last row of a key wins
RECURSIVE mapping_of(_)
mapping_of(csv) ==
    IF csv = <<>> THEN [k \in {} |-> NaN]
    ELSE LET rest == mapping_of(SubSeq(csv, 1, Len(csv) - 1))
             row  == csv[Len(csv)]
             key  == normalize_key(row.cobacia)
         IN  [k \in DOMAIN rest \cup {key} |->
                IF k = key THEN row.value ELSE rest[k]]

\* one feature of the updated layer: the backup column, the mapped value, cs_ish
updated_feature(feat, mapping) ==
    LET kept == [c \in DOMAIN feat \cup {csv_dim \o "_orig_backup"} |->
                    IF c = csv_dim \o "_orig_backup" THEN feat[csv_dim] ELSE feat[c]]
        k    == normalize_key(feat.cobacia)
        repl == IF k # "" /\ k \in DOMAIN mapping
                THEN [kept EXCEPT ![csv_dim] = mapping[k]]
                ELSE kept
    IN  [repl EXCEPT !.cs_ish = row_mean(repl)]

\* gdf after the mapping is applied and cs_ish recomputed
updated_gdf(frame, csv) ==
    [k \in DOMAIN frame |-> updated_feature(frame[k], mapping_of(csv))]

\* the layer being updated, and another layer of the scenario GeoPackage
TargetFrame ==
    << [cobacia |-> Key("7796133"), ire_cs_inu |-> Num(2), ire_cs_hum |-> Num(4),
        cs_ish |-> Num(3)],
       [cobacia |-> Key("7796135"), ire_cs_inu |-> Num(0), ire_cs_hum |-> Num(2),
        cs_ish |-> Num(2)] >>

RecorteFrame ==
    << [cobacia |-> Key("7796133"), ire_cs_inu |-> Num(2), ire_cs_hum |-> Num(4),
        cs_ish |-> Num(3)] >>

ScenarioFiles ==
    { << [name |-> layer, content |-> TargetFrame] >>,
      << [name |-> layer, content |-> TargetFrame],
         [name |-> "recorte_es", content |-> RecorteFrame] >>,
      << [name |-> "recorte_es", content |-> RecorteFrame],
         [name |-> layer, content |-> TargetFrame] >> }

CsvFiles ==
    { << [cobacia |-> Key("7796133"), value |-> Num(5)] >>,
      << [cobacia |-> Key("7796135"), value |-> Num(4)],
         [cobacia |-> Key("9999999"), value |-> Num(1)] >> }

\* joinISH.compute_cs_ish for one row: row[row > 0.0].mean() over dim_cols,
\* the mean of an empty selection being NaN
joinISH_compute_cs_ish(feat, dim_cols) ==
    LET cols == SetSeq(dim_cols)
        row  == [k \in DOMAIN cols |-> feat[cols[k]]]
        pos  == Filter(row, [k \in DOMAIN row |-> Less(Num(0), row[k])])
    IN  IF pos = <<>> THEN NaN
        ELSE Mul(SeqSum(pos), Rat(1, Len(pos)))

\* a file left at the output or temporary path by an earlier run
LeftOver == << [name |-> "velho", content |-> <<>>] >>

OutArgs == {None, new_gpkg, gpkg_in, temp_gpkg}

\* lines 180-290: the arguments are read, the layer is loaded and updated in
\* memory
ud_load ==
    /\ ud.pc = "start"
    /\ ud' = [ud EXCEPT !.pc = "decide",
                        !.layers = listlayers(ud.fs[gpkg_in]),
                        !.gdf = updated_gdf(read_file(ud.fs[gpkg_in], layer), ud.csv)]
    /\ UNCHANGED <<agg_vars, wm_vars, rec, late_vars>>

\* lines 293-304 and 313-315 without --out: the backup directory is made and
\* the backup path chosen; a dry run returns here
ud_makedirs ==
    /\ ud.pc = "decide"
    /\ ud.out = None
    /\ ud' = [ud EXCEPT !.dirs = @ \cup {default_backup_dir},
                        !.backup_path = backup_path_of(default_backup_dir),
                        !.out_gpkg = temp_gpkg,
                        !.pc = IF ud.dry_run THEN "done" ELSE "copy2"]
    /\ UNCHANGED <<agg_vars, wm_vars, rec, late_vars>>

\* faulty variant of ud_copy2: no backup is made
ud_copy2_skipped ==
    /\ ud.pc = "copy2"
    /\ ud' = [ud EXCEPT !.pc = "remove"]
    /\ UNCHANGED <<agg_vars, wm_vars, rec, late_vars>>

\* line 303: shutil.copy2(gpkg_in, backup_path)
ud_copy2 ==
    /\ ud.pc = "copy2"
    /\ ud' = [ud EXCEPT !.fs = copy2(@, gpkg_in, ud.backup_path),
                        !.pc = "remove"]
    /\ UNCHANGED <<agg_vars, wm_vars, rec, late_vars>>

\* lines 305-307 and 313-315 with --out: a dry run returns here
ud_out_given ==
    /\ ud.pc = "decide"
    /\ ud.out # None
    /\ ud' = [ud EXCEPT !.out_gpkg = ud.out,
                        !.pc = IF ud.dry_run THEN "done" ELSE "remove"]
    /\ UNCHANGED <<agg_vars, wm_vars, rec, late_vars>>

\* lines 318-319: a file at out_gpkg is removed
ud_remove ==
    /\ ud.pc = "remove"
    /\ ud' = [ud EXCEPT !.fs = IF ud.out_gpkg \in DOMAIN @
                               THEN remove(@, ud.out_gpkg) ELSE @,
                        !.i = 1,
                        !.pc = "write"]
    /\ UNCHANGED <<agg_vars, wm_vars, rec, late_vars>>

\* gpd.read_file(gpkg_in, layer=lyr) raises when the file or the layer is gone
readable(fs, lyr) ==
    gpkg_in \in DOMAIN fs /\ lyr \in Range(listlayers(fs[gpkg_in]))

\* lines 323-340, one turn of the loop: the layer is written to out_gpkg
ud_write_layer ==
    /\ ud.pc = "write"
    /\ ud.i <= Len(ud.layers)
    /\ LET lyr == ud.layers[ud.i]
       IN  IF lyr # layer /\ ~readable(ud.fs, lyr)
           THEN ud' = [ud EXCEPT !.pc = "raised"]
           ELSE ud' = [ud EXCEPT
                         !.fs = to_file(@, ud.out_gpkg, lyr,
                                        IF lyr = layer THEN ud.gdf
                                        ELSE read_file(ud.fs[gpkg_in], lyr)),
                         !.i = @ + 1]
    /\ UNCHANGED <<agg_vars, wm_vars, rec, late_vars>>

\* lines 343-354: the temporary file replaces the original; backup_path is
\* printed, a name that is bound only when --out was not given
ud_finish ==
    /\ ud.pc = "write"
    /\ ud.i > Len(ud.layers)
    /\ IF ud.out_gpkg = gpkg_in \o ".tmp.gpkg"
       THEN ud' = [ud EXCEPT !.fs = move(@, ud.out_gpkg, gpkg_in),
                             !.pc = IF ud.backup_path = "unbound" THEN "raised"
                                    ELSE "done"]
       ELSE ud' = [ud EXCEPT !.pc = "done"]
    /\ UNCHANGED <<agg_vars, wm_vars, rec, late_vars>>

InitUD ==
    /\ gpkg = [l \in {input_layer} |->
                 CHOOSE s \in SourceLayers :
                    \A i \in DOMAIN s.rows :
                       s.rows[i].cs_ish = NaN /\ s.rows[i].geometry = Cells]
    /\ pres = CHOOSE p \in PresentationLayers :
                 \A i \in DOMAIN p.rows : p.rows[i].geometry = Cells
    /\ presentation_gpkg = mun_es_gpkg
    /\ request = <<>>
    /\ outcome = "none"
    /\ last_all = EmptyLayer
    /\ io_log = <<>>
    /\ before = NoRun
    /\ wm_values = <<>>
    /\ wm_weights = <<>>
    /\ wm_result = NaN
    /\ wm_called = FALSE
    /\ rec = rec_idle
    /\ late_idle
    /\ \E scenario \in ScenarioFiles, csv \in CsvFiles, out \in OutArgs,
          dry_run \in BOOLEAN, left \in SUBSET {new_gpkg, temp_gpkg},
          dirs \in SUBSET {default_backup_dir} :
          LET fs == [q \in {gpkg_in} \cup left |->
                        IF q = gpkg_in THEN scenario ELSE LeftOver]
          IN  ud = [pc |-> "start", out |-> out, dry_run |-> dry_run, csv |-> csv,
                    fs |-> fs, dirs |-> dirs, fs0 |-> fs, dirs0 |-> dirs,
                    layers |-> <<>>, gdf |-> <<>>, i |-> 0,
                    out_gpkg |-> "unbound", backup_path |-> "unbound"]

NextUD ==
    \/ ud_load
    \/ ud_makedirs
    \/ ud_copy2
    \/ ud_out_given
    \/ ud_remove
    \/ ud_write_layer
    \/ ud_finish

SpecUD == InitUD /\ [][NextUD]_vars

\* ====================================================== aplica_recortes.py
\* the longest list of -r options
MaxArgs == 2

\* names given with -r: two recortes that may exist and one that never does
RecorteArgNames == {"es", "doce", "nenhum"}

\* the recortes that may lie in recortes/ as <nome>.gpkg, with their dissolved
\* geometry (rg.unary_union)
RecorteGeoms == [n \in {"es", "doce"} |-> IF n = "es" THEN {1} ELSE Cells]

\* the layer regiao_completa of the scenario GeoPackage
gdf_regiao ==
    << [cobacia |-> "A", geometry |-> {1}],
       [cobacia |-> "B", geometry |-> Cells \ {1}] >>

\* gpd.clip(gdf, mask): the features that meet the mask, cut to it
clip(gdf, mask) ==
    LET hit == Filter(gdf, [k \in DOMAIN gdf |-> gdf[k].geometry \cap mask # {}])
    IN  [k \in DOMAIN hit |-> [hit[k] EXCEPT !.geometry = @ \cap mask]]

\* the keys of a dict filled in the order of names: each name once
RECURSIVE dict_keys(_)
dict_keys(names) ==
    IF names = <<>> THEN <<>>
    ELSE LET rest == dict_keys(SubSeq(names, 1, Len(names) - 1))
             n    == names[Len(names)]
         IN  IF n \in Range(rest) THEN rest ELSE Append(rest, n)

\* load_all_recortes: the names of the dict it returns, in order
load_all_recortes(has_dir, files, recorte_args) ==
    IF ~has_dir THEN <<>>
    ELSE IF recorte_args # <<>>
    THEN dict_keys(Filter(recorte_args,
                          [k \in DOMAIN recorte_args |-> recorte_args[k] \in files]))
    ELSE <<>>

\* the layers of the GeoPackage after gdf_rec.to_file for each name in turn
RECURSIVE write_recortes(_, _)
write_recortes(layers, names) ==
    IF names = <<>> THEN layers
    ELSE LET n == Head(names)
             w == [l \in DOMAIN layers \cup {n} |->
                     IF l = n THEN clip(layers[layer], RecorteGeoms[n])
                     ELSE layers[l]]
         IN  write_recortes(w, Tail(names))

\* aplica_recortes_gpkg(gpkg_path, recorte_args)
aplica_recortes_gpkg ==
    /\ rec.pc = "start"
    /\ IF ~rec.gpkg_exists
       THEN rec' = [rec EXCEPT !.pc = "FileNotFoundError"]
       ELSE LET names == load_all_recortes(rec.has_dir, rec.files, rec.recorte_args)
            IN  rec' = [rec EXCEPT !.layers = write_recortes(@, names),
                                   !.added = names,
                                   !.pc = "done"]
    /\ UNCHANGED <<agg_vars, wm_vars, ud, late_vars>>

InitRec ==
    /\ gpkg = [l \in {input_layer} |->
                 CHOOSE s \in SourceLayers :
                    \A i \in DOMAIN s.rows :
                       s.rows[i].cs_ish = NaN /\ s.rows[i].geometry = Cells]
    /\ pres = CHOOSE p \in PresentationLayers :
                 \A i \in DOMAIN p.rows : p.rows[i].geometry = Cells
    /\ presentation_gpkg = mun_es_gpkg
    /\ request = <<>>
    /\ outcome = "none"
    /\ last_all = EmptyLayer
    /\ io_log = <<>>
    /\ before = NoRun
    /\ wm_values = <<>>
    /\ wm_weights = <<>>
    /\ wm_result = NaN
    /\ wm_called = FALSE
    /\ ud = ud_idle
    /\ late_idle
    /\ \E gpkg_exists, has_dir \in BOOLEAN, files \in SUBSET DOMAIN RecorteGeoms,
          n \in 0..MaxArgs :
       \E recorte_args \in [1..n -> RecorteArgNames] :
          /\ ~has_dir => files = {}
          /\ rec = [pc |-> "start", gpkg_exists |-> gpkg_exists, has_dir |-> has_dir,
                    files |-> files, recorte_args |-> recorte_args,
                    layers |-> [l \in {layer} |-> gdf_regiao], added |-> <<>>]

NextRec == aplica_recortes_gpkg

SpecRec == InitRec /\ [][NextRec]_vars

\* ------------------------------------- dimension values of update_dimension
\* the longest CSV
MaxRows == 2

\* the aggregator, the weighted median and the file scripts not started
early_idle ==
    /\ gpkg = [l \in {input_layer} |->
                 CHOOSE s \in SourceLayers :
                    \A i \in DOMAIN s.rows :
                       s.rows[i].cs_ish = NaN /\ s.rows[i].geometry = Cells]
    /\ pres = CHOOSE p \in PresentationLayers :
                 \A i \in DOMAIN p.rows : p.rows[i].geometry = Cells
    /\ presentation_gpkg = mun_es_gpkg
    /\ request = <<>>
    /\ outcome = "none"
    /\ last_all = EmptyLayer
    /\ io_log = <<>>
    /\ before = NoRun
    /\ wm_values = <<>>
    /\ wm_weights = <<>>
    /\ wm_result = NaN
    /\ wm_called = FALSE
    /\ ud = ud_idle
    /\ rec = rec_idle

\* lines 242-290 of update_dimension.py on the layer dimrun.frame and the CSV
\* dimrun.csv; joinISH's cs_ish of the same rows (joinISH.py lines 148-152:
\* the columns starting with ire_cs_) is kept beside the result
update_dimension_values ==
    /\ dimrun.pc = "start"
    /\ LET gdf == updated_gdf(dimrun.frame, dimrun.csv)
       IN  dimrun' = [dimrun EXCEPT
                        !.pc = "done",
                        !.gdf = gdf,
                        !.join = [k \in DOMAIN gdf |->
                                     joinISH_compute_cs_ish(
                                        gdf[k], DOMAIN gdf[k] \cap DimPrefixed)]]
    /\ UNCHANGED <<agg_vars, wm_vars, ud, rec, colour, imap, layout>>

InitDim ==
    /\ early_idle
    /\ colour = [pc |-> "idle"]
    /\ imap = [pc |-> "idle"]
    /\ layout = [pc |-> "idle"]
    /\ LET \* a dimension cell: null, a negative, zero, positives
           DimValues == {NaN, Num(-1), Num(0), Num(2), Num(5)}
           \* a CSV cell: empty (null), zero, a positive
           CsvValues == {NaN, Num(0), Num(3)}
           \* key cells of the layer and of the CSV
           LayerKeys == {Key("7796133"), [text |-> "7796135", form |-> "float"],
                         [text |-> "", form |-> "null"]}
           CsvKeys == {[text |-> "7796133", form |-> "padded"], Key("9999999"),
                       [text |-> "", form |-> "null"]}
       IN
       \E key \in LayerKeys, inu \in DimValues, hum \in DimValues,
          n \in 0..MaxRows :
       \E ck \in [1..n -> CsvKeys], cv \in [1..n -> CsvValues] :
          dimrun = [pc |-> "start",
                    frame |-> << [cobacia |-> key, ire_cs_inu |-> inu,
                                  ire_cs_hum |-> hum, cs_ish |-> NaN] >>,
                    csv |-> [k \in 1..n |-> [cobacia |-> ck[k], value |-> cv[k]]],
                    gdf |-> <<>>, join |-> <<>>]

SpecDim == InitDim /\ [][update_dimension_values]_vars

\* ======================================================= interactive_map*.py
\* the longest column of values coloured in one call
MaxVals == 2

COLORS_ISH == <<"#FF5500", "#FFAA00", "#FFFF71", "#169200", "#2986cc">>
NO_DATA_COLOR == "#cccccc"
\* 1.5, 2.5, 3.5, 4.5, 5.0
CLASS_THRESHOLDS == <<Rat(3, 2), Rat(5, 2), Rat(7, 2), Rat(9, 2), Num(5)>>

\* the colour of the first threshold, from the k-th on, that vf does not
\* exceed; COLORS_ISH[-1] when there is none
RECURSIVE first_class(_, _)
first_class(vf, k) ==
    IF k > Len(CLASS_THRESHOLDS) THEN COLORS_ISH[Len(COLORS_ISH)]
    ELSE IF Leq(vf, CLASS_THRESHOLDS[k]) THEN COLORS_ISH[k]
    ELSE first_class(vf, k + 1)

\* get_color_for_value of interactive_map_2.py (and of interactive_map.py)
get_color_for_value_2(v) ==
    IF v.kind = "None" THEN "#cccccc"
    ELSE IF ~v.parses THEN "#cccccc"
    ELSE IF Less(v.val, Num(1)) THEN "#eeeeee"
    ELSE first_class(v.val, 1)

\* get_color_for_value of interactive_map_4.py: 0.0 is no data as well
get_color_for_value(v) ==
    IF v.kind = "None" THEN NO_DATA_COLOR
    ELSE IF ~v.parses THEN NO_DATA_COLOR
    ELSE IF v.val = Num(0) THEN NO_DATA_COLOR
    ELSE IF Less(v.val, Num(1)) THEN "#eeeeee"
    ELSE first_class(v.val, 1)

\* cols_list = [get_color_for_value(v) for v in vals], in either script
colour_column ==
    /\ colour.pc = "start"
    /\ colour' = [colour EXCEPT
                    !.pc = "done",
                    !.cols_list =
                        [k \in DOMAIN colour.vals |->
                            IF colour.script = "interactive_map_4"
                            THEN get_color_for_value(colour.vals[k])
                            ELSE get_color_for_value_2(colour.vals[k])]]
    /\ UNCHANGED <<agg_vars, wm_vars, ud, rec, dimrun, imap, layout>>

InitColour ==
    /\ early_idle
    /\ dimrun = [pc |-> "idle"]
    /\ imap = [pc |-> "idle"]
    /\ layout = [pc |-> "idle"]
    /\ LET \* A value handed to get_color_for_value is [kind, parses, val]:
           \* None, a float (val, NaN included) or a string; float(v) gives
           \* val when the string parses as a number and raises otherwise.
           PyNone == [kind |-> "None", parses |-> FALSE, val |-> NaN]
           PyFloat(x) == [kind |-> "float", parses |-> TRUE, val |-> x]
           PyStr(parses, x) == [kind |-> "str", parses |-> parses, val |-> x]
           \* None, nan, "abc", "3.2", floats below, inside and above the classes
           ColourInputs ==
               { PyNone, PyFloat(NaN), PyStr(FALSE, NaN), PyStr(TRUE, Rat(16, 5)) }
               \cup { PyFloat(Rat(h, 2)) : h \in {-2, 0, 1, 2, 3, 4, 5, 7, 9, 10, 12} }
       IN
       \E script \in {"interactive_map_2", "interactive_map_4"}, n \in 1..MaxVals :
       \E vals \in [1..n -> ColourInputs] :
          colour = [pc |-> "start", script |-> script, vals |-> vals,
                    cols_list |-> <<>>]

SpecColour == InitColour /\ [][colour_column]_vars

\* --------------------------------------- save_static_maps_from_selection
\* the largest number of items to plot
MaxItems == 12

\* faulty variant of per_row_of: the remainder goes to the first rows
per_row_first(n, rows) ==
    [i \in 1..rows |-> (n \div rows) + (IF i - 1 < n % rows THEN 1 ELSE 0)]

\* per_row = [base + (1 if i >= rows - rem else 0) for i in range(rows)]
per_row_of(n, rows) ==
    [i \in 1..rows |->
        (n \div rows) + (IF i - 1 >= rows - (n % rows) THEN 1 ELSE 0)]

\* lines 448-467: n = len(items); no item raises, else the arrangement is chosen
choose_layout ==
    /\ layout.pc = "start"
    /\ IF layout.n = 0
       THEN layout' = [layout EXCEPT !.pc = "ValueError"]
       ELSE LET \* one row up to 3 items, 2 for 4, math.ceil(n / 3) beyond
                rows == IF layout.n <= 3 THEN 1
                        ELSE IF layout.n = 4 THEN 2
                        ELSE (layout.n + 2) \div 3
                per_row == per_row_of(layout.n, rows)
            IN  layout' = [layout EXCEPT !.pc = "draw", !.rows = rows,
                                         !.per_row = per_row,
                                         !.cols = CHOOSE x \in Range(per_row) :
                                                     \A y \in Range(per_row) : y <= x]
    /\ UNCHANGED <<agg_vars, wm_vars, ud, rec, dimrun, colour, imap>>

\* lines 485-514, the subplot at (r, c): item idx is drawn in it when the row
\* still has a place, else the subplot is hidden; item 0 stands for no item
draw_subplot ==
    /\ layout.pc = "draw"
    /\ layout.r < layout.rows
    /\ LET used == layout.c < layout.per_row[layout.r + 1]
           item == IF used /\ layout.idx < layout.n THEN layout.idx + 1 ELSE 0
           last == layout.c + 1 = layout.cols
       IN  layout' = [layout EXCEPT
                        !.axes = Append(@, [r |-> layout.r, c |-> layout.c,
                                            item |-> item, visible |-> used]),
                        !.idx = IF item # 0 THEN @ + 1 ELSE @,
                        !.c = IF last THEN 0 ELSE @ + 1,
                        !.r = IF last THEN @ + 1 ELSE @]
    /\ UNCHANGED <<agg_vars, wm_vars, ud, rec, dimrun, colour, imap>>

\* lines 516-538: legend, title, fig.savefig(outp)
save_figure ==
    /\ layout.pc = "draw"
    /\ layout.r = layout.rows
    /\ layout' = [layout EXCEPT !.pc = "done"]
    /\ UNCHANGED <<agg_vars, wm_vars, ud, rec, dimrun, colour, imap>>

InitLayout ==
    /\ early_idle
    /\ dimrun = [pc |-> "idle"]
    /\ colour = [pc |-> "idle"]
    /\ imap = [pc |-> "idle"]
    /\ \E n \in 0..MaxItems :
          layout = [pc |-> "start", n |-> n, rows |-> 0, per_row |-> <<>>,
                    cols |-> 0, r |-> 0, c |-> 0, idx |-> 0, axes |-> <<>>]

NextLayout ==
    \/ choose_layout
    \/ draw_subplot
    \/ save_figure

SpecLayout == InitLayout /\ [][NextLayout]_vars

\* ------------------------------------- run_interactive (interactive_map_4)
\* lines 296-302: the outputs needed; none needed returns None
ri_decide ==
    /\ imap.pc = "start"
    /\ LET need_html == imap.generate \in {"html", "both"}
           need_png  == imap.generate \in {"png", "both"} /\ imap.static
       IN  imap' = [imap EXCEPT !.need_html = need_html, !.need_png = need_png,
                                !.pc = IF ~(need_html \/ need_png) THEN "returned"
                                       ELSE "load"]
    /\ UNCHANGED <<agg_vars, wm_vars, ud, rec, dimrun, colour, layout>>

\* lines 304-325: the layers are read; without any there are no bounds and
\* None is returned; the folium map m is built only when HTML is needed
ri_load ==
    /\ imap.pc = "load"
    /\ imap' = [imap EXCEPT
                  !.gdfs = imap.chosen_layers,
                  !.m_bound = (imap.chosen_layers # <<>> /\ imap.need_html),
                  !.i = 1,
                  !.pc = IF imap.chosen_layers = <<>> THEN "returned" ELSE "layers"]
    /\ UNCHANGED <<agg_vars, wm_vars, ud, rec, dimrun, colour, layout>>

\* lines 328-363, one layer: its feature groups are added to m, a name that
\* is bound only when the map was built
ri_add_layer ==
    /\ imap.pc = "layers"
    /\ imap.i <= Len(imap.gdfs)
    /\ IF ~imap.m_bound
       THEN imap' = [imap EXCEPT !.pc = "UnboundLocalError"]
       ELSE imap' = [imap EXCEPT
                       !.groups = @ + (IF imap.gdfs[imap.i].fields = <<>> THEN 1
                                       ELSE Len(imap.gdfs[imap.i].fields)),
                       !.i = @ + 1]
    /\ UNCHANGED <<agg_vars, wm_vars, ud, rec, dimrun, colour, layout>>

\* lines 365-389: legend and layer control are added to m and m is saved to
\* output_html; output_dir is interactive_maps/ beside the GeoPackage (made
\* if missing) unless an output_html was given and the browser is opened
ri_save_html ==
    /\ imap.pc = "layers"
    /\ imap.i > Len(imap.gdfs)
    /\ IF ~imap.m_bound
       THEN imap' = [imap EXCEPT !.pc = "UnboundLocalError"]
       ELSE LET path == IF imap.output_html = None
                            THEN "interactive_maps/interactive_map_cenario.html"
                        ELSE imap.output_html
            IN  imap' = [imap EXCEPT
                           !.dir_made = (imap.output_html = None \/ ~imap.open_browser),
                           !.output_dir = IF imap.output_html = None \/ ~imap.open_browser
                                          THEN "interactive_maps" ELSE ".",
                           !.html_saved = path,
                           !.pc = "png"]
    /\ UNCHANGED <<agg_vars, wm_vars, ud, rec, dimrun, colour, layout>>

\* lines 391-401: the static PNG is saved when needed; the PNG path is
\* returned when no HTML was needed, else the HTML path
ri_png ==
    /\ imap.pc = "png"
    /\ LET img_path == IF imap.static_out = None
                       THEN imap.output_dir \o "/preview_cenario.png"
                       ELSE imap.static_out
       IN  imap' = [imap EXCEPT
                      !.png_saved = IF imap.need_png THEN img_path ELSE @,
                      !.ret = IF imap.need_png /\ ~imap.need_html THEN img_path
                              ELSE imap.html_saved,
                      !.pc = "returned"]
    /\ UNCHANGED <<agg_vars, wm_vars, ud, rec, dimrun, colour, layout>>

InitMap ==
    /\ early_idle
    /\ dimrun = [pc |-> "idle"]
    /\ colour = [pc |-> "idle"]
    /\ layout = [pc |-> "idle"]
    /\ LET \* a chosen layer with the fields selected for it (none: the
           \* base layer only)
           MapLayers ==
               { [name |-> "regiao_completa", fields |-> <<"cs_ish">>],
                 [name |-> "agg_mun_es", fields |-> <<"cs_ish_mean", "cs_ish_max">>],
                 [name |-> "recorte_es", fields |-> <<>>] }
           \* the lists of chosen layers: none, one, or two different ones
           ChosenLayers ==
               {<<>>} \cup { <<a>> : a \in MapLayers }
                      \cup { <<q[1], q[2]>> :
                                q \in { t \in MapLayers \X MapLayers : t[1] # t[2] } }
       IN
       \E generate \in {"html", "png", "both"}, static \in BOOLEAN,
          chosen_layers \in ChosenLayers, open_browser \in BOOLEAN,
          output_html \in {None, "mapa.html"}, static_out \in {None, "mapa.png"} :
          imap = [pc |-> "start", generate |-> generate, static |-> static,
                  chosen_layers |-> chosen_layers, open_browser |-> open_browser,
                  output_html |-> output_html, static_out |-> static_out,
                  need_html |-> FALSE, need_png |-> FALSE, gdfs |-> <<>>,
                  m_bound |-> FALSE, i |-> 0, groups |-> 0, dir_made |-> FALSE,
                  output_dir |-> None,
                  html_saved |-> None, png_saved |-> None, ret |-> None]

NextMap ==
    \/ ri_decide
    \/ ri_load
    \/ ri_add_layer
    \/ ri_save_html
    \/ ri_png

SpecMap == InitMap /\ [][NextMap]_vars

\* ======================================================================
\* Properties of aggregate_presentation_gpkg (checked under Spec)
\* ======================================================================
Done == outcome = "ok"

\* the layer agg_<basename> as written by the last successful run
Written == gpkg[out_layer_name]

Src == gpkg[input_layer]

\* aggregation a was requested, by name or through the sentinel "all"
Requested(a) == a \in Range(request) \/ "all" \in Range(request)

\* the source units that intersect presentation unit i
Hits(i) == {j \in DOMAIN Src.rows :
              pres.rows[i].geometry \cap Src.rows[j].geometry # {}}

\* the output rows of presentation unit i
RowsOf(i) == {r \in DOMAIN Written.rows : Written.rows[r].id = pres.rows[i].id}

ColIs(row, c, v) == c \in DOMAIN row.attrs /\ row.attrs[c] = v

\* presentation unit i has an output row and column c is v in each of them
UnitHas(i, c, v) ==
    /\ RowsOf(i) # {}
    /\ \A r \in RowsOf(i) : ColIs(Written.rows[r], c, v)

\* cs_ish(j) * area_inter(i, j) / area_total(i), a null cs_ish counting as 0
Term(i, j) ==
    Mul(fillna0(Src.rows[j].cs_ish),
        Rat(Cardinality(pres.rows[i].geometry \cap Src.rows[j].geometry),
            Cardinality(pres.rows[i].geometry)))

RECURSIVE SumTerms(_, _)
SumTerms(i, js) ==
    IF js = {} THEN Num(0)
    ELSE LET j == CHOOSE x \in js : TRUE
         IN  Add(Term(i, j), SumTerms(i, js \ {j}))

\* C1: a presentation unit lying inside exactly one source unit of non-null
\* value v gets cs_ish_mean = v in the layer written by a run requesting mean.
C1_MeanOfSingleCover ==
    (Done /\ Requested("mean")) =>
        \A i \in DOMAIN pres.rows : \A j \in DOMAIN Src.rows :
            ( /\ Hits(i) = {j}
              /\ pres.rows[i].geometry \subseteq Src.rows[j].geometry
              /\ ~IsNaN(Src.rows[j].cs_ish) )
            => UnitHas(i, "cs_ish_mean", Src.rows[j].cs_ish)

\* C2: the written cs_ish_mean of a presentation unit with intersections is the
\* sum of cs_ish * area_inter / area_total over its intersection records, not
\* renormalised by the covered area (half covered by value v: v * 0.5).
C2_MeanIsAreaWeightedSum ==
    (Done /\ Requested("mean")) =>
        \A i \in DOMAIN pres.rows :
            Hits(i) # {} => UnitHas(i, "cs_ish_mean", SumTerms(i, Hits(i)))

\* C3: a fully covered presentation unit that intersects, at equal areas, one
\* source unit of null cs_ish and one of value v gets cs_ish_mean = v / 2
\* (2.0 for v = 4.0), never v.
C3_NullCountsAsZero ==
    (Done /\ Requested("mean")) =>
        \A i \in DOMAIN pres.rows : \A j, k \in DOMAIN Src.rows :
            ( /\ Hits(i) = {j, k} /\ j # k
              /\ IsNaN(Src.rows[j].cs_ish) /\ ~IsNaN(Src.rows[k].cs_ish)
              /\ Cardinality(pres.rows[i].geometry \cap Src.rows[j].geometry)
                   = Cardinality(pres.rows[i].geometry \cap Src.rows[k].geometry)
              /\ 2 * Cardinality(pres.rows[i].geometry \cap Src.rows[j].geometry)
                   = Cardinality(pres.rows[i].geometry) )
            => UnitHas(i, "cs_ish_mean", Mul(Src.rows[k].cs_ish, Rat(1, 2)))

\* C4: every requested aggregate column of a presentation unit without any
\* intersection record is null in the written layer, on the short-circuit
\* path (no intersection at all) and beside units that have intersections.
C4_NoIntersectionAllNull ==
    Done =>
        \A i \in DOMAIN pres.rows :
            Hits(i) = {} =>
                \A k \in DOMAIN SUPPORTED_AGGS :
                    Requested(SUPPORTED_AGGS[k]) =>
                        UnitHas(i, colname(SUPPORTED_AGGS[k]), NaN)

C4_Witness ==
    /\ Done /\ request = <<"all">>
    /\ \E i, k \in DOMAIN pres.rows :
          /\ Hits(i) = {} /\ Hits(k) # {}
          /\ UnitHas(i, "cs_ish_max", NaN)

\* C5: the written layer has exactly one row per presentation unit of the
\* input, whether or not the unit has intersections.
C5_OneRowPerUnit ==
    Done =>
        /\ Len(Written.rows) = Len(pres.rows)
        /\ \A i \in DOMAIN pres.rows : Cardinality(RowsOf(i)) = 1

C5_Witness ==
    /\ Done /\ request = <<"all">>
    /\ \E i, k \in DOMAIN pres.rows :
          /\ Hits(i) = {} /\ Cardinality(Hits(k)) = 2
          /\ Cardinality(RowsOf(i)) = 1 /\ Cardinality(RowsOf(k)) = 1

\* the non-null cs_ish values among the intersection records of unit i
HitValues(i) == {Src.rows[j].cs_ish : j \in {h \in Hits(i) : ~IsNaN(Src.rows[h].cs_ish)}}

\* C8: the written cs_ish_max and cs_ish_min of a presentation unit are the
\* maximum and minimum of the non-null cs_ish values among its intersection
\* records, whatever the areas, and null when there is no such value.
C8_PlainMaxMin ==
    (Done /\ Requested("max") /\ Requested("min")) =>
        \A i \in DOMAIN pres.rows :
            Hits(i) # {} =>
                IF HitValues(i) = {}
                THEN UnitHas(i, "cs_ish_max", NaN) /\ UnitHas(i, "cs_ish_min", NaN)
                ELSE /\ \E m \in HitValues(i) :
                          /\ \A x \in HitValues(i) : Leq(x, m)
                          /\ UnitHas(i, "cs_ish_max", m)
                     /\ \E m \in HitValues(i) :
                          /\ \A x \in HitValues(i) : Leq(m, x)
                          /\ UnitHas(i, "cs_ish_min", m)

\* C9: a run requesting mean, median, max and min individually writes exactly
\* the layer (same columns, same values in every row) that a run requesting
\* "all" wrote for the same inputs.
C9_AllEqualsFour ==
    (Done /\ request = FourAggs /\ last_all # EmptyLayer) => Written = last_all

C9_Witness ==
    /\ Done /\ request = FourAggs /\ last_all # EmptyLayer
    /\ Written = last_all
    /\ Len(Written.cols) >= 4
    /\ \E i \in DOMAIN pres.rows : Cardinality(Hits(i)) = 2

\* C10: the aggregate columns of the written layer are exactly the columns
\* cs_ish_<a> of the requested aggregations a: none missing, none of an
\* unrequested aggregation, no renamed duplicate.
C10_ExactlyRequestedColumns ==
    Done =>
        /\ Range(Written.cols) =
              {colname(SUPPORTED_AGGS[k]) :
                  k \in {n \in DOMAIN SUPPORTED_AGGS : Requested(SUPPORTED_AGGS[n])}}
        /\ \A r \in DOMAIN Written.rows :
              DOMAIN Written.rows[r].attrs = Range(Written.cols)

\* ======================================================================
\* Properties of _weighted_median (checked under SpecWM)
\* ======================================================================
\* the positions of the non-null values of the call
NonNullAt == {i \in DOMAIN wm_values : ~IsNaN(wm_values[i])}

RECURSIVE WeightOf(_)
WeightOf(is) ==
    IF is = {} THEN Num(0)
    ELSE LET i == CHOOSE x \in is : TRUE
         IN  Add(wm_weights[i], WeightOf(is \ {i}))

\* the weight of the non-null values <= v reaches half the weight of all
\* non-null values
ReachesHalf(v) ==
    Leq(Mul(WeightOf(NonNullAt), Rat(1, 2)),
        WeightOf({i \in NonNullAt : Leq(wm_values[i], v)}))

\* C6: when the non-null values have total weight > 0, the weighted median is
\* the smallest value at which the cumulative weight, in ascending order of
\* value, reaches half of that total; for [(1.0, 1), (5.0, 1)] it is 1.0.
C6_WeightedMedianCutoff ==
    wm_called =>
        /\ Less(Num(0), WeightOf(NonNullAt)) =>
              \E i \in NonNullAt :
                  /\ wm_result = wm_values[i]
                  /\ ReachesHalf(wm_values[i])
                  /\ \A k \in NonNullAt :
                        ReachesHalf(wm_values[k]) => Leq(wm_values[i], wm_values[k])
        /\ (wm_values = <<Num(1), Num(5)>> /\ wm_weights = <<Num(1), Num(1)>>)
              => wm_result = Num(1)

C6_Witness ==
    /\ wm_called
    /\ wm_values = <<Num(1), Num(5)>> /\ wm_weights = <<Num(1), Num(1)>>
    /\ wm_result = Num(1)

\* the k-th smallest (k = 1, 2, ...) of the non-null values
RankValue(k) ==
    CHOOSE v \in {wm_values[i] : i \in NonNullAt} :
        /\ Cardinality({i \in NonNullAt : Less(wm_values[i], v)}) < k
        /\ k <= Cardinality({i \in NonNullAt : Leq(wm_values[i], v)})

\* the unweighted median of the non-null values
PlainMedian ==
    Mul(Add(RankValue((Cardinality(NonNullAt) + 1) \div 2),
            RankValue(Cardinality(NonNullAt) \div 2 + 1)),
        Rat(1, 2))

\* C7: when the weights of the group sum to zero the weighted median is the
\* unweighted median of the non-null values, and when there is no non-null
\* value it is null.
C7_ZeroWeightFallback ==
    wm_called =>
        /\ NonNullAt = {} => IsNaN(wm_result)
        /\ (NonNullAt # {} /\ WeightOf(DOMAIN wm_values) = Num(0))
              => wm_result = PlainMedian

C7_Witness ==
    /\ wm_called
    /\ WeightOf(DOMAIN wm_values) = Num(0)
    /\ \E i, k \in NonNullAt : Less(wm_values[i], wm_values[k])
    /\ \E i \in DOMAIN wm_values : IsNaN(wm_values[i])
    /\ wm_result = PlainMedian /\ ~IsNaN(wm_result)


\* ======================================================================
\* Properties of runs on a GeoPackage in use (checked under SpecStore)
\* ======================================================================
\* a run has ended
Ran == outcome # "none"

KnownNames == Range(SUPPORTED_AGGS) \cup {"all"}

\* the request of the last run holds a name outside mean, median, max, min, all
HasUnknownName == \E k \in DOMAIN request : request[k] \notin KnownNames

\* the GeoPackage holds the layers it held when the last run started
StoreUntouched == gpkg = before.gpkg

\* C11: a run whose request list holds at least one name outside {mean,
\* median, max, min, all} fails with the unsupported-aggregation error before
\* any input is read and without writing or replacing any layer.
C11_UnknownNameFails ==
    (Ran /\ HasUnknownName) =>
        /\ outcome = "ValueError"
        /\ io_log = <<>>
        /\ StoreUntouched

\* the inputs of the last run lacked a column the run needs
MissingColumn ==
    \/ "cs_ish" \notin Range(before.gpkg[input_layer].cols)
    \/ id_field \notin Range(before.pres.cols)

\* C12: a run on a source layer without the column cs_ish, or on a
\* presentation layer without the column id_field, fails with an error and
\* leaves the output GeoPackage as it was.
C12_MissingColumnFails ==
    (Ran /\ MissingColumn) =>
        /\ outcome = "ValueError"
        /\ "write" \notin Range(io_log)
        /\ StoreUntouched

C12_Witness ==
    /\ Ran /\ ~HasUnknownName
    /\ before.pres = PresWithoutId
    /\ before.gpkg[input_layer] = SourceWithCsIsh
    /\ out_layer_name \in DOMAIN before.gpkg
    /\ outcome = "ValueError"
    /\ io_log = <<"read input", "read presentation">>

\* the frame the last run computed from the inputs it started with
Computed ==
    result_pres_out(before.gpkg[input_layer], before.pres, normalize_aggs(request))

\* C14: after a successful run the GeoPackage holds every layer it held
\* before other than agg_<basename>, unchanged, and the layer agg_<basename>
\* holding the new result only; a layer of that name that existed is
\* replaced as a whole.
C14_OtherLayersKept ==
    (Ran /\ Done) =>
        /\ DOMAIN gpkg = DOMAIN before.gpkg \cup {out_layer_name}
        /\ \A l \in DOMAIN before.gpkg \ {out_layer_name} : gpkg[l] = before.gpkg[l]
        /\ gpkg[out_layer_name] = Computed
        /\ \A r \in DOMAIN gpkg[out_layer_name].rows :
              gpkg[out_layer_name].rows[r].id = before.pres.rows[r].id

C14_Witness ==
    /\ Ran /\ Done
    /\ out_layer_name \in DOMAIN before.gpkg
    /\ before.gpkg[out_layer_name] = StaleAgg
    /\ OtherLayerNames \subseteq DOMAIN before.gpkg
    /\ OtherLayerNames \subseteq DOMAIN gpkg
    /\ gpkg[out_layer_name] # StaleAgg

\* C15: no run, successful or failed, changes the content of the source
\* layer or of the presentation layer, the output GeoPackage being the
\* input GeoPackage.
C15_InputsUnchanged ==
    Ran =>
        /\ input_layer \in DOMAIN gpkg
        /\ gpkg[input_layer] = before.gpkg[input_layer]
        /\ pres = before.pres

C15_Witness ==
    /\ Ran /\ Done
    /\ out_layer_name \in DOMAIN before.gpkg
    /\ gpkg[out_layer_name] # before.gpkg[out_layer_name]
    /\ gpkg[input_layer] = SourceWithCsIsh

\* "agg_" + the base name of the presentation path, path by path
ExpectedLayerName ==
    IF presentation_gpkg.file = <<"mun_es", "gpkg">> THEN "agg_mun_es"
    ELSE IF presentation_gpkg.file = <<"bacias", "v2", "gpkg">> THEN "agg_bacias.v2"
    ELSE IF presentation_gpkg.file = <<"regioes">> THEN "agg_regioes"
    ELSE "?"

\* the layers the last run created or changed
Touched ==
    {l \in DOMAIN gpkg : l \notin DOMAIN before.gpkg \/ gpkg[l] # before.gpkg[l]}

\* C16: whatever aggregations are requested, a successful run writes one
\* layer, named "agg_" + the base name of the presentation path given to the
\* run (agg_mun_es for mun_es.gpkg), and no layer per aggregation.
C16_OneLayerNamedAfterPresentation ==
    (Ran /\ Done) =>
        /\ ExpectedLayerName \in DOMAIN gpkg
        /\ Touched \subseteq {ExpectedLayerName}
        /\ io_log = <<"read input", "read presentation", "write">>

C16_Witness ==
    /\ Ran /\ Done
    /\ request = <<"all">>
    /\ presentation_gpkg.file = <<"bacias", "v2", "gpkg">>
    /\ Touched = {"agg_bacias.v2"}
    /\ "agg_bacias.v2" \notin DOMAIN before.gpkg

\* ======================================================================
\* Intersection areas (checked under Spec)
\* ======================================================================
\* the intersection records of the inputs
Inter == overlay(PresWithArea(pres), Src)

\* the sum of area_inter_km2 over the records of presentation unit key
RECURSIVE AreaInterSum(_, _)
AreaInterSum(inter, key) ==
    IF inter = <<>> THEN 0
    ELSE (IF Head(inter).id = key THEN Head(inter).area_inter_km2 ELSE 0)
         + AreaInterSum(Tail(inter), key)

\* the source units that intersect presentation unit i do not overlap in it
DisjointIn(i) ==
    \A j, k \in Hits(i) :
        j # k => pres.rows[i].geometry \cap Src.rows[j].geometry
                   \cap Src.rows[k].geometry = {}

\* the weights of unit i sum to at most 1 and its mean is at most its maximum
BoundedAt(i) ==
    LET grp == Group(Inter, pres.rows[i].id)
    IN  /\ AreaInterSum(Inter, pres.rows[i].id) <= area_km2(pres.rows[i].geometry)
        /\ (grp # <<>> /\ ~IsNaN(GroupMax(grp)))
              => Leq(WeightedSum(grp), GroupMax(grp))

\* C13 as stated: for every presentation unit the sum of area_inter over its
\* intersection records is at most area_total, so that its weights sum to at
\* most 1 and the mean of non-negative values is at most the group's maximum.
C13_AreaSumBounded ==
    Done => \A i \in DOMAIN pres.rows : BoundedAt(i)

\* C13 amended: the same bound, for every presentation unit whose
\* intersecting source units do not overlap one another inside it.
C13_AreaSumBoundedWithoutOverlap ==
    Done => \A i \in DOMAIN pres.rows : DisjointIn(i) => BoundedAt(i)

C13_Witness ==
    /\ Done
    /\ \E i \in DOMAIN pres.rows :
          /\ DisjointIn(i)
          /\ Cardinality(Hits(i)) = 2
          /\ AreaInterSum(Inter, pres.rows[i].id) = area_km2(pres.rows[i].geometry)
          /\ ~IsNaN(GroupMax(Group(Inter, pres.rows[i].id)))


\* ======================================================================
\* Properties of update_dimension.py (checked under SpecUD)
\* ======================================================================
\* the content of the scenario GeoPackage when the run started
Original == ud.fs0[gpkg_in]

\* the file at path holds the complete content the scenario had at the start
HoldsOriginal(path) == path \in DOMAIN ud.fs /\ ud.fs[path] = Original

\* the scenario with the updated layer in the place of the target layer
Updated ==
    [k \in DOMAIN Original |->
        IF Original[k].name = layer
        THEN [name |-> layer, content |-> ud.gdf] ELSE Original[k]]

\* C17: a run with --dry-run performs no writes: the scenario GeoPackage is
\* unchanged and no backup, temporary or output file or directory is created,
\* with or without --out.
C17_DryRunWritesNothing ==
    ud.dry_run => (ud.fs = ud.fs0 /\ ud.dirs = ud.dirs0)

\* the run overwrites the original: no --out, no --dry-run
Overwriting == ud.out = None /\ ~ud.dry_run

\* C18: when the original is overwritten, at every point the original path or
\* the backup holds the complete content from before the update; the original
\* path changes only once the backup is complete and every layer has been
\* written to the temporary file, whose content it then holds.
C18_BackupBeforeReplace ==
    Overwriting =>
        /\ HoldsOriginal(gpkg_in) \/ HoldsOriginal(ud.backup_path)
        /\ ~HoldsOriginal(gpkg_in) =>
              /\ HoldsOriginal(ud.backup_path)
              /\ ud.i > Len(ud.layers)
              /\ gpkg_in \in DOMAIN ud.fs
              /\ ud.fs[gpkg_in] = Updated
              /\ temp_gpkg \notin DOMAIN ud.fs

C18_Witness ==
    /\ Overwriting
    /\ ud.pc = "done"
    /\ Len(ud.layers) = 2
    /\ temp_gpkg \in DOMAIN ud.fs0
    /\ ~HoldsOriginal(gpkg_in)
    /\ ud.fs[gpkg_in] = Updated
    /\ HoldsOriginal(ud.backup_path)

\* C19: with --out, whatever its value, the original at --gpkg stays in place
\* with unchanged content and the updated data is written to the --out path.
C19_OriginalRemains ==
    (ud.out # None /\ ~ud.dry_run) =>
        /\ HoldsOriginal(gpkg_in)
        /\ ud.pc = "done" =>
              (ud.out \in DOMAIN ud.fs /\ ud.fs[ud.out] = Updated)


\* ======================================================================
\* Properties of aplica_recortes.py (checked under SpecRec)
\* ======================================================================
\* C20: a run without any -r applies every recorte GeoPackage that exists in
\* recortes/: one clipped layer per existing recorte is written and its name
\* returned.
C20_NoArgsAppliesAll ==
    (rec.pc = "done" /\ rec.recorte_args = <<>>) =>
        /\ Range(rec.added) = rec.files
        /\ \A n \in rec.files :
              /\ n \in DOMAIN rec.layers
              /\ rec.layers[n] = clip(gdf_regiao, RecorteGeoms[n])


\* ======================================================================
\* Properties of the dimension update (checked under SpecDim)
\* ======================================================================
\* the rows of the CSV whose normalised key is key
CsvRowsOf(key) ==
    {r \in DOMAIN dimrun.csv : normalize_key(dimrun.csv[r].cobacia) = key}

\* the CSV value of key: that of the last row carrying it
CsvValueOf(key) ==
    dimrun.csv[CHOOSE r \in CsvRowsOf(key) : \A q \in CsvRowsOf(key) : q <= r].value

\* feature k is to be replaced: its key is not empty, is found in the CSV and
\* the CSV value is not null
ToReplace(k) ==
    LET key == normalize_key(dimrun.frame[k].cobacia)
    IN  key # "" /\ CsvRowsOf(key) # {} /\ ~IsNaN(CsvValueOf(key))

\* C21: the dimension value of a feature is replaced only when its normalised
\* key is found in the CSV and the CSV value of that key is not null; every
\* other feature (key absent, empty key, null CSV value) keeps its value.
C21_ReplacedOnlyWhenValueGiven ==
    dimrun.pc = "done" =>
        \A k \in DOMAIN dimrun.frame :
            IF ToReplace(k)
            THEN dimrun.gdf[k][csv_dim]
                   = CsvValueOf(normalize_key(dimrun.frame[k].cobacia))
            ELSE dimrun.gdf[k][csv_dim] = dimrun.frame[k][csv_dim]

\* the columns of feat that start with ire_cs_ and hold a value > 0
PositiveCols(feat) ==
    {c \in DOMAIN feat \cap DimPrefixed : Less(Num(0), feat[c])}

RECURSIVE SumOver(_, _)
SumOver(feat, cs) ==
    IF cs = {} THEN Num(0)
    ELSE LET c == CHOOSE x \in cs : TRUE
         IN  Add(feat[c], SumOver(feat, cs \ {c}))

\* the mean of the positive dimension values, null when there is none
PositiveMean(feat) ==
    IF PositiveCols(feat) = {} THEN NaN
    ELSE Mul(SumOver(feat, PositiveCols(feat)),
             Rat(1, Cardinality(PositiveCols(feat))))

\* C22: cs_ish of a feature is the arithmetic mean of those of its values in
\* the columns starting with ire_cs_ that are > 0 (zeros, negatives and nulls
\* ignored), null when there is none; joinISH.compute_cs_ish gives the same
\* value as update_dimension.compute_cs_ish on the same dimension values.
C22_CsIshIsPositiveMean ==
    dimrun.pc = "done" =>
        \A k \in DOMAIN dimrun.gdf :
            /\ dimrun.gdf[k].cs_ish = PositiveMean(dimrun.gdf[k])
            /\ dimrun.join[k] = dimrun.gdf[k].cs_ish

C22_Witness ==
    /\ dimrun.pc = "done"
    /\ dimrun.gdf[1].ire_cs_hum = Num(0)
    /\ dimrun.gdf[1].ire_cs_inu = Num(3)
    /\ dimrun.gdf[1].ire_cs_inu_orig_backup = Num(-1)
    /\ dimrun.gdf[1].cs_ish = Num(3)
    /\ dimrun.join[1] = Num(3)


\* ======================================================================
\* Properties of get_color_for_value (checked under SpecColour)
\* ======================================================================
\* v is a missing value: None, NaN, or not convertible to a number
Missing(v) == v.kind = "None" \/ ~v.parses \/ IsNaN(v.val)

\* C23: get_color_for_value returns the no-data light grey #cccccc for every
\* missing value (None, NaN, a value that cannot be converted to a number)
\* and never one of the five ISH class colours.
C23_MissingIsGrey ==
    colour.pc = "done" =>
        \A k \in DOMAIN colour.vals :
            Missing(colour.vals[k]) =>
                /\ colour.cols_list[k] = "#cccccc"
                /\ colour.cols_list[k] \notin Range(COLORS_ISH)


\* ======================================================================
\* Properties of save_static_maps_from_selection (checked under SpecLayout)
\* ======================================================================
RECURSIVE SumInts(_)
SumInts(q) == IF q = <<>> THEN 0 ELSE Head(q) + SumInts(Tail(q))

\* the subplots in which item i is drawn
SubplotsOf(i) == {k \in DOMAIN layout.axes : layout.axes[k].item = i}

\* C25: for every n >= 1 the row sizes per_row sum to exactly n, no row has
\* more than 3 columns, the larger rows come last (n = 5 gives [2, 3], n = 4
\* gives [2, 2], n <= 3 one row) and every item is drawn in exactly one subplot.
C25_RowsHoldEveryItemOnce ==
    (layout.pc = "done" /\ layout.n >= 1) =>
        /\ SumInts(layout.per_row) = layout.n
        /\ \A i \in DOMAIN layout.per_row : layout.per_row[i] <= 3
        /\ layout.cols <= 3
        /\ \A i, j \in DOMAIN layout.per_row :
              i < j => layout.per_row[i] <= layout.per_row[j]
        /\ layout.n = 5 => layout.per_row = <<2, 3>>
        /\ layout.n = 4 => layout.per_row = <<2, 2>>
        /\ layout.n <= 3 => layout.per_row = <<layout.n>>
        /\ \A i \in 1..layout.n : Cardinality(SubplotsOf(i)) = 1

C25_Witness ==
    /\ layout.pc = "done"
    /\ layout.n = 5
    /\ layout.per_row = <<2, 3>>
    /\ Len(layout.axes) = 6
    /\ ~layout.axes[3].visible
    /\ layout.axes[6].item = 5


\* ======================================================================
\* Properties of run_interactive (checked under SpecMap)
\* ======================================================================
\* the call has ended, by a return or by an exception
Ended == imap.pc \in {"returned", "UnboundLocalError"}

\* C24: called with generate = 'png' and static = True, run_interactive
\* produces the static PNG only: no HTML map is built or saved, the call ends
\* without error and returns the PNG path; with generate = 'png' and
\* static = False it produces nothing and returns None.
C24_PngOnly ==
    (Ended /\ imap.generate = "png" /\ imap.chosen_layers # <<>>) =>
        IF imap.static
        THEN /\ imap.pc = "returned"
             /\ imap.png_saved # None
             /\ imap.ret = imap.png_saved
             /\ imap.html_saved = None
             /\ ~imap.m_bound
        ELSE /\ imap.pc = "returned"
             /\ imap.ret = None
             /\ imap.png_saved = None
             /\ imap.html_saved = None

====
